---- MODULE Spec2Model ----
(***************************************************************************)
(* Model of scripts/summarize_slither.py: one run of the script over one   *)
(* parsed Slither report.  The script is a straight-line program; pc is    *)
(* its position.  JSON values are records tagged with the kind of value    *)
(* they hold, so that a list, a mapping, null and a missing key stay       *)
(* distinguishable.  Findings are objects on the heap: `detectors` holds   *)
(* the live objects and `top_examples` holds references (indices) to them. *)
(***************************************************************************)
EXTENDS Integers, Sequences, FiniteSets, TLC

VARIABLES data, pc, results, detectors, i, counts, impact_counts,
          confidence_counts, top_examples, trimmed_detectors,
          trimmed, csv, md

vars == <<data, pc, results, detectors, i, counts, impact_counts,
          confidence_counts, top_examples, trimmed_detectors,
          trimmed, csv, md>>

----------------------------------------------------------------------------
(* Bounds of the model *)

MaxFindings == 4
MaxElems == 1
MaxLines == 11
MaxCats == 31

(* Constants of the program *)

PreviewMax == 10
Edge == 5
MaxExamples == 3
TopN == 30

----------------------------------------------------------------------------
(* JSON values *)

\* dict.get(key) on a missing key, and JSON null
Absent == "<absent>"
Null == "<null>"

Min(a, b) == IF a <= b THEN a ELSE b
Max(a, b) == IF a >= b THEN a ELSE b

\* the value under a `lines` key: missing, null, a list, or a mapping
NoLines ==
  [kind |-> "absent", items |-> <<>>, keys |-> {}, count |-> 0,
   lines_preview |-> <<>>, first |-> <<>>, last |-> <<>>]
NullLines == [NoLines EXCEPT !.kind = "null"]
ListLines(s) == [NoLines EXCEPT !.kind = "list", !.items = s]
PreviewDict(n, s) ==
  [NoLines EXCEPT !.kind = "dict", !.keys = {"count", "lines_preview"},
                  !.count = n, !.lines_preview = s]
FirstLastDict(n, f, l) ==
  [NoLines EXCEPT !.kind = "dict", !.keys = {"count", "first", "last"},
                  !.count = n, !.first = f, !.last = l]

\* a `source_mapping` value
NoSM == [kind |-> "absent", filename |-> Absent, lines |-> NoLines]
NullSM == [NoSM EXCEPT !.kind = "null"]
DictSM(l) == [kind |-> "dict", filename |-> "A.sol", lines |-> l]

\* `type_specific_fields` and its `parent`
NoParent == [kind |-> "absent", name |-> Absent, source_mapping |-> NoSM]
NullParent == [NoParent EXCEPT !.kind = "null"]
DictParent(sm) == [kind |-> "dict", name |-> "C", source_mapping |-> sm]
NoTSF == [kind |-> "absent", parent |-> NoParent]
NullTSF == [NoTSF EXCEPT !.kind = "null"]
DictTSF(p) == [kind |-> "dict", parent |-> p]

Element(sm, tsf) ==
  [name |-> "f", source_mapping |-> sm, type_specific_fields |-> tsf]

\* the value under a finding's `elements` key
NoElements == [kind |-> "absent", items |-> <<>>]
NullElements == [kind |-> "null", items |-> <<>>]
ListElements(es) == [kind |-> "list", items |-> es]

Finding(check, impact, confidence, description, markdown, elements) ==
  [check |-> check, impact |-> impact, confidence |-> confidence,
   description |-> description, markdown |-> markdown, elements |-> elements]

\* the value under `results`, and under `results.detectors`
NoDetectors == [kind |-> "absent", items |-> <<>>]
NoResults ==
  [kind |-> "absent", num |-> 0, items |-> <<>>,
   detectors |-> NoDetectors, printers |-> Absent]
EmptyDict == [NoResults EXCEPT !.kind = "dict"]
None == [kind |-> "null", num |-> 0, items |-> <<>>]

\* Python truthiness of a `results` value
Truthy(r) ==
  \/ r.kind = "num" /\ r.num # 0
  \/ r.kind = "list" /\ r.items # <<>>
  \/ r.kind = "dict" /\ (r.detectors.kind # "absent" \/ r.printers # Absent)

\* `x or default` on a string field read with dict.get
OrDefault(v, default) == IF v \in {Absent, Null, ""} THEN default ELSE v

\* dict.get(key, default): only a missing key takes the default
GetDefault(v, default) == IF v = Absent THEN default ELSE v

----------------------------------------------------------------------------
(* Insertion-ordered dictionaries (dict, Counter, defaultdict): a sequence *)
(* of entries [key, val] in order of first insertion.                      *)

HasKey(d, k) == \E j \in DOMAIN d : d[j].key = k
IndexOf(d, k) == CHOOSE j \in DOMAIN d : d[j].key = k
Lookup(d, k) == d[IndexOf(d, k)].val

\* c[k] = 1 in place of c[k] += 1
CounterInc_assign(c, k) ==
  IF HasKey(c, k)
  THEN [c EXCEPT ![IndexOf(c, k)].val = 1]
  ELSE Append(c, [key |-> k, val |-> 1])

\* Counter: c[k] += 1
CounterInc(c, k) ==
  IF HasKey(c, k)
  THEN [c EXCEPT ![IndexOf(c, k)].val = @ + 1]
  ELSE Append(c, [key |-> k, val |-> 1])

\* defaultdict(Counter): d[check][k] += 1
NestedInc(d, check, k) ==
  IF HasKey(d, check)
  THEN [d EXCEPT ![IndexOf(d, check)].val = CounterInc(@, k)]
  ELSE Append(d, [key |-> check, val |-> CounterInc(<<>>, k)])

RECURSIVE InsertDesc(_, _)
InsertDesc(x, t) ==
  IF t = <<>> \/ Head(t).val <= x.val
  THEN <<x>> \o t
  ELSE <<Head(t)>> \o InsertDesc(x, Tail(t))

RECURSIVE SortDesc(_)
SortDesc(s) == IF s = <<>> THEN <<>> ELSE InsertDesc(Head(s), SortDesc(Tail(s)))

\* a sort that is not stable: equal counts come out in reverse
RECURSIVE InsertDescTies(_, _)
InsertDescTies(x, t) ==
  IF t = <<>> \/ Head(t).val < x.val
  THEN <<x>> \o t
  ELSE <<Head(t)>> \o InsertDescTies(x, Tail(t))

RECURSIVE most_common_unstable(_)
most_common_unstable(c) ==
  IF c = <<>> THEN <<>>
  ELSE InsertDescTies(Head(c), most_common_unstable(Tail(c)))

\* Counter.most_common(): sorted(items, key=count, reverse=True), a stable sort
most_common(c) == SortDesc(c)

\* Counter.most_common(n): the first n of the same ordering
most_common_n(c, n) == SubSeq(most_common(c), 1, Min(n, Len(c)))

\* impact_counts[check].most_common(1)[0][0] if impact_counts[check] else ''
TopValue(tbl) == IF tbl = <<>> THEN "" ELSE most_common_n(tbl, 1)[1].key

----------------------------------------------------------------------------
(* The pure functions of the aggregation pass *)

\* `n < 10` in place of `n <= 10`
summarize_lines_strict(lines) ==
  IF lines.kind # "list"
  THEN lines
  ELSE LET n == Len(lines.items) IN
       IF n < PreviewMax
       THEN PreviewDict(n, lines.items)
       ELSE FirstLastDict(n,
                          SubSeq(lines.items, 1, Min(Edge, n)),
                          SubSeq(lines.items, Max(1, n - Edge + 1), n))

\* without the isinstance guard: a mapping is summarised by its length
summarize_lines_unguarded(lines) ==
  IF lines.kind = "dict"
  THEN PreviewDict(Cardinality(lines.keys), <<>>)
  ELSE IF lines.kind # "list"
  THEN lines
  ELSE LET n == Len(lines.items) IN
       IF n <= PreviewMax
       THEN PreviewDict(n, lines.items)
       ELSE FirstLastDict(n,
                          SubSeq(lines.items, 1, Min(Edge, n)),
                          SubSeq(lines.items, Max(1, n - Edge + 1), n))

\* summarize_lines(lines)
summarize_lines(lines) ==
  IF lines.kind # "list"
  THEN lines
  ELSE LET n == Len(lines.items) IN
       IF n <= PreviewMax
       THEN PreviewDict(n, lines.items)
       ELSE FirstLastDict(n,
                          SubSeq(lines.items, 1, Min(Edge, n)),
                          SubSeq(lines.items, Max(1, n - Edge + 1), n))

\* det.get('check', 'unknown'): the default for a missing key only
Category_missingOnly(det) == GetDefault(det.check, "unknown")

\* check = det.get('check') or 'unknown'
Category(det) == OrDefault(det.check, "unknown")

\* elems = det_copy.get('elements') or []
Elems(det) == IF det.elements.kind = "list" THEN det.elements.items ELSE <<>>

\* without `sm = dict(sm)`: the summary is written into the input's own sm
TrimSourceMapping_inPlace(e) ==
  LET sm == e.source_mapping
      w == [e EXCEPT !.source_mapping.lines = summarize_lines(sm.lines)]
  IN IF sm.kind = "dict" /\ sm.lines.kind \notin {"absent", "null"}
     THEN [orig |-> w, copy |-> w]
     ELSE [orig |-> e, copy |-> e]

\* e_copy = dict(e), then the top-level source_mapping.lines replaced in a
\* copy of sm.  orig is the element object e after the statements ran, copy
\* is e_copy; the statements write to copies only, so orig is e.
TrimSourceMapping(e) ==
  LET sm == e.source_mapping IN
  IF sm.kind = "dict" /\ sm.lines.kind \notin {"absent", "null"}
  THEN [orig |-> e,
        copy |-> [e EXCEPT !.source_mapping.lines = summarize_lines(sm.lines)]]
  ELSE [orig |-> e, copy |-> e]

\* the nested type_specific_fields.parent.source_mapping.lines of e_copy,
\* replaced in copies of psm, parent and tsf
TrimParent(e_copy) ==
  LET tsf == e_copy.type_specific_fields
      parent == tsf.parent
      psm == parent.source_mapping
  IN IF /\ tsf.kind = "dict"
        /\ parent.kind = "dict"
        /\ psm.kind = "dict"
        /\ psm.lines.kind # "absent"
     THEN [e_copy EXCEPT !.type_specific_fields.parent.source_mapping.lines =
                            summarize_lines(psm.lines)]
     ELSE e_copy

\* one turn of `for e in elems`
TrimElement(e) ==
  LET t == TrimSourceMapping(e)
  IN [orig |-> t.orig, copy |-> TrimParent(t.copy)]

\* det_copy = dict(det) ... det_copy['elements'] = new_elems.  orig is the
\* finding object det after the statements ran, copy is det_copy.
TrimFinding(det) ==
  LET es == Elems(det)
      ts == [j \in DOMAIN es |-> TrimElement(es[j])]
  IN [orig |-> IF det.elements.kind = "list"
               THEN [det EXCEPT !.elements.items =
                                   [j \in DOMAIN es |-> ts[j].orig]]
               ELSE det,
      copy |-> [det EXCEPT !.elements =
                              ListElements([j \in DOMAIN es |-> ts[j].copy])]]

\* insert(0, det_copy) in place of append(det_copy)
AppendTrimmed_front(seq, det_copy) == <<det_copy>> \o seq

\* trimmed_detectors.append(det_copy)
AppendTrimmed(seq, det_copy) == Append(seq, det_copy)

\* `<= 3` in place of `< 3`
StoreExample_le(top, check, ref) ==
  LET t == IF HasKey(top, check) THEN top
           ELSE Append(top, [key |-> check, val |-> <<>>])
      j == IndexOf(t, check)
  IN IF Len(t[j].val) <= MaxExamples
     THEN [t EXCEPT ![j].val = Append(@, ref)]
     ELSE t

\* if len(top_examples[check]) < 3: top_examples[check].append(det)
\* (reading top_examples[check] creates the empty list); ref is the
\* reference to det
StoreExample(top, check, ref) ==
  LET t == IF HasKey(top, check) THEN top
           ELSE Append(top, [key |-> check, val |-> <<>>])
      j == IndexOf(t, check)
  IN IF Len(t[j].val) < MaxExamples
     THEN [t EXCEPT ![j].val = Append(@, ref)]
     ELSE t

\* results = data.get('results') or {}
LoadResults(doc) == IF Truthy(doc.results) THEN doc.results ELSE EmptyDict

\* detectors = results.get('detectors') if isinstance(results, dict) else results
LoadDetectors(r) ==
  IF r.kind = "dict"
  THEN IF r.detectors.kind = "list"
       THEN [kind |-> "list", num |-> 0, items |-> r.detectors.items]
       ELSE None
  ELSE [kind |-> r.kind, num |-> r.num, items |-> r.items]

\* trimmed = dict(data); trimmed_results = dict(results) if isinstance(results,
\* dict) else {}; trimmed_results['detectors'] = trimmed_detectors;
\* trimmed['results'] = trimmed_results
BuildTrimmed(doc, r, tds) ==
  LET trimmed_results == IF r.kind = "dict" THEN r ELSE EmptyDict
  IN [doc EXCEPT !.results =
        [trimmed_results EXCEPT !.detectors = [kind |-> "list", items |-> tds]]]

\* one CSV row
CsvRow(check, cnt, imp, conf) ==
  [check |-> check, count |-> cnt,
   top_impact |-> TopValue(Lookup(imp, check)),
   top_confidence |-> TopValue(Lookup(conf, check))]

\* the rows after the header, in the order of counts.most_common()
CsvRows(c, imp, conf) ==
  LET mc == most_common(c)
  IN [j \in DOMAIN mc |-> CsvRow(mc[j].key, mc[j].val, imp, conf)]

RECURSIVE SumVals(_)
SumVals(c) == IF c = <<>> THEN 0 ELSE Head(c).val + SumVals(Tail(c))

\* the lines of '## Top detectors (by count)'
MdTop(c) ==
  LET mc == most_common_n(c, TopN)
  IN [j \in DOMAIN mc |-> [check |-> mc[j].key, count |-> mc[j].val]]

\* one representative finding: its impact/confidence line and its description
\* bullet (descriptions are single lines without surrounding whitespace, on
\* which strip() and the newline replacement change nothing)
MdExample(ex) ==
  LET desc == OrDefault(ex.description, OrDefault(ex.markdown, ""))
  IN [impact |-> GetDefault(ex.impact, ""),
      confidence |-> GetDefault(ex.confidence, ""),
      bullets |-> IF desc # "" THEN <<desc>> ELSE <<>>]

\* the blocks of '## Representative findings (up to 3 per detector)'
MdReps(top, c, heap) ==
  LET shown == SubSeq(top, 1, Min(TopN, Len(top)))
  IN [j \in DOMAIN shown |->
        [check |-> shown[j].key,
         count |-> Lookup(c, shown[j].key),
         examples |-> [k \in DOMAIN shown[j].val |->
                         MdExample(heap[shown[j].val[k]])]]]

----------------------------------------------------------------------------
(* Input documents *)

\* n source line numbers
LineSeq(n) == [k \in 1..n |-> 100 + k]

LineLens == {0, PreviewMax, PreviewMax + 1, MaxLines}

\* `lines` values of a report: missing, null, raw lists, and mappings shaped
\* like the summaries of an earlier run
LinesVals ==
  {NoLines, NullLines}
    \cup {ListLines(LineSeq(n)) : n \in LineLens}
    \cup {PreviewDict(2, LineSeq(2)),
          FirstLastDict(12, <<101, 102, 103, 104, 105>>,
                            <<108, 109, 110, 111, 112>>)}

SMVals == {NoSM, NullSM} \cup {DictSM(l) : l \in LinesVals}

TSFVals ==
  {NoTSF, NullTSF, DictTSF(NoParent), DictTSF(NullParent)}
    \cup {DictTSF(DictParent(sm)) : sm \in SMVals}

ElementVals == {Element(sm, tsf) : sm \in SMVals, tsf \in TSFVals}

SeqsUpTo(S, n) == UNION {[1..m -> S] : m \in 0..n}

\* single findings with every shape of element
ElementFindings ==
  {Finding("a", "High", "Medium", "text", Absent, ListElements(es)) :
     es \in SeqsUpTo(ElementVals, MaxElems) \ {<<>>}}

\* single findings lacking any subset of their fields
FieldFindings ==
  {Finding(c, im, co, d, m, es) :
     c \in {Absent, Null, "", "a"}, im \in {Absent, "High"},
     co \in {Absent, "Medium"}, d \in {Absent, "text"},
     m \in {Absent, "md"},
     es \in {NoElements, NullElements, ListElements(<<>>)}}

LongElement ==
  Element(DictSM(ListLines(LineSeq(PreviewMax + 2))),
          DictTSF(DictParent(DictSM(ListLines(LineSeq(3))))))
ShortElement == Element(DictSM(ListLines(LineSeq(1))), NoTSF)

\* the findings that sequences of several findings are drawn from
Pool ==
  {Finding("a", "High", "Medium", "text", Absent,
           ListElements(<<LongElement, ShortElement>>)),
   Finding("a", "Low", Absent, Absent, "md", NoElements),
   Finding("b", "High", "High", "other", Absent,
           ListElements(<<ShortElement>>)),
   Finding(Absent, Absent, "Low", Absent, Absent, ListElements(<<>>)),
   Finding("unknown", Null, Null, "", Absent, NoElements)}

Names ==
  <<"c01", "c02", "c03", "c04", "c05", "c06", "c07", "c08", "c09",
     "c10", "c11", "c12", "c13", "c14", "c15", "c16", "c17", "c18",
     "c19", "c20", "c21", "c22", "c23", "c24", "c25", "c26", "c27",
     "c28", "c29", "c30", "c31", "c32", "c33", "c34", "c35", "c36",
     "c37", "c38", "c39", "c40">>

\* reports with many categories: one finding of each of the first n names,
\* then the findings whose names stand at the places in `again`
WideFindings(n, again) ==
  [k \in 1..(n + Len(again)) |->
     Finding(Names[IF k <= n THEN k ELSE again[k - n]],
             "Low", "High", Absent, Absent, NoElements)]

WideSeqs ==
  {WideFindings(n, again) :
     n \in (MaxCats - 2)..MaxCats,
     again \in {<<>>, <<2>>, <<MaxCats - 2, 2>>}}

FindingSeqs ==
  SeqsUpTo(Pool, MaxFindings)
    \cup {<<f>> : f \in ElementFindings \cup FieldFindings}
    \cup WideSeqs

Doc(success, r) == [success |-> success, results |-> r]

\* { "results": [ ... ] }
ListDoc(fs) == Doc("true", [NoResults EXCEPT !.kind = "list", !.items = fs])

\* { "results": { "detectors": [ ... ], "printers": ... } }
DictDoc(fs) ==
  Doc("true", [EmptyDict EXCEPT !.detectors = [kind |-> "list", items |-> fs],
                                !.printers = "p"])

\* documents without a list of findings
OtherDocs ==
  {Doc(Absent, NoResults),
   Doc("true", [NoResults EXCEPT !.kind = "null"]),
   Doc("true", [NoResults EXCEPT !.kind = "num", !.num = 0]),
   Doc("true", [NoResults EXCEPT !.kind = "num", !.num = 7]),
   Doc("true", EmptyDict),
   Doc("true", [EmptyDict EXCEPT !.printers = "p"]),
   Doc("true", [EmptyDict EXCEPT !.detectors.kind = "null"])}

Inputs ==
  {ListDoc(fs) : fs \in FindingSeqs}
    \cup {DictDoc(fs) : fs \in FindingSeqs}
    \cup OtherDocs

----------------------------------------------------------------------------
(* The run *)

\* an output file before it is written
NoFile == [written |-> FALSE]

Init ==
  /\ data \in Inputs
  /\ pc = "load"
  /\ results = NoResults
  /\ detectors = None
  /\ i = 1
  /\ counts = <<>>
  /\ impact_counts = <<>>
  /\ confidence_counts = <<>>
  /\ top_examples = <<>>
  /\ trimmed_detectors = <<>>
  /\ trimmed = NoFile
  /\ csv = NoFile
  /\ md = NoFile

\* the loader: sys.exit(0) without output when detectors is None
Load ==
  /\ pc = "load"
  /\ results' = LoadResults(data)
  /\ detectors' = LoadDetectors(results')
  /\ pc' = IF detectors' = None THEN "no_detectors" ELSE "loop"
  /\ UNCHANGED <<data, i, counts, impact_counts, confidence_counts,
                 top_examples, trimmed_detectors, trimmed, csv, md>>

\* `for det in detectors` over a value that is no list: TypeError
IterError ==
  /\ pc = "loop"
  /\ detectors.kind # "list"
  /\ pc' = "type_error"
  /\ UNCHANGED <<data, results, detectors, i, counts, impact_counts,
                 confidence_counts, top_examples, trimmed_detectors,
                 trimmed, csv, md>>

\* one turn of `for det in detectors`
Aggregate ==
  /\ pc = "loop"
  /\ detectors.kind = "list"
  /\ i <= Len(detectors.items)
  /\ LET det == detectors.items[i]
         check == Category(det)
         t == TrimFinding(det)
     IN /\ counts' = CounterInc(counts, check)
        /\ impact_counts' =
             NestedInc(impact_counts, check, OrDefault(det.impact, ""))
        /\ confidence_counts' =
             NestedInc(confidence_counts, check, OrDefault(det.confidence, ""))
        /\ top_examples' = StoreExample(top_examples, check, i)
        /\ detectors' = [detectors EXCEPT !.items[i] = t.orig]
        /\ trimmed_detectors' = AppendTrimmed(trimmed_detectors, t.copy)
  /\ i' = i + 1
  /\ UNCHANGED <<data, pc, results, trimmed, csv, md>>

\* the trimmed report, built and dumped after the loop
WriteTrimmed ==
  /\ pc = "loop"
  /\ detectors.kind = "list"
  /\ i > Len(detectors.items)
  /\ trimmed' = [written |-> TRUE,
                 doc |-> BuildTrimmed(data, results, trimmed_detectors)]
  /\ pc' = "csv"
  /\ UNCHANGED <<data, results, detectors, i, counts, impact_counts,
                 confidence_counts, top_examples, trimmed_detectors, csv, md>>

\* the CSV of counts
WriteCsv ==
  /\ pc = "csv"
  /\ csv' = [written |-> TRUE,
             rows |-> CsvRows(counts, impact_counts, confidence_counts)]
  /\ pc' = "md"
  /\ UNCHANGED <<data, results, detectors, i, counts, impact_counts,
                 confidence_counts, top_examples, trimmed_detectors,
                 trimmed, md>>

\* the Markdown summary
WriteMarkdown ==
  /\ pc = "md"
  /\ md' = [written |-> TRUE,
            total |-> SumVals(counts),
            unique |-> Len(counts),
            top |-> MdTop(counts),
            reps |-> MdReps(top_examples, counts, detectors.items)]
  /\ pc' = "done"
  /\ UNCHANGED <<data, results, detectors, i, counts, impact_counts,
                 confidence_counts, top_examples, trimmed_detectors,
                 trimmed, csv>>

Next ==
  \/ Load
  \/ IterError
  \/ Aggregate
  \/ WriteTrimmed
  \/ WriteCsv
  \/ WriteMarkdown

Spec == Init /\ [][Next]_vars

----------------------------------------------------------------------------
(* The input as the properties below read it *)

\* the findings of the input document, wherever it holds them
InputFindings ==
  IF data.results.kind = "list" THEN data.results.items
  ELSE IF data.results.kind = "dict" THEN data.results.detectors.items
  ELSE <<>>

\* the findings of the trimmed report
ReportFindings == trimmed.doc.results.detectors.items

\* the category a finding is counted under
CategoryOf(f) == IF f.check \in {Absent, Null, ""} THEN "unknown" ELSE f.check

\* the positions of the findings of category c among the first n inputs
Members(c, n) ==
  {k \in 1..Min(n, Len(InputFindings)) : CategoryOf(InputFindings[k]) = c}

FirstSeen(c) ==
  CHOOSE k \in Members(c, Len(InputFindings)) :
    \A m \in Members(c, Len(InputFindings)) : k <= m

\* out is the summary of the raw list raw
IsSummaryOf(out, raw) ==
  LET n == Len(raw.items) IN
  /\ out.kind = "dict"
  /\ out.count = n
  /\ out.items = <<>>
  /\ n <= 10 =>
       /\ out.keys = {"count", "lines_preview"}
       /\ out.lines_preview = raw.items
       /\ out.first = <<>> /\ out.last = <<>>
  /\ n > 10 =>
       /\ out.keys = {"count", "first", "last"}
       /\ out.first = SubSeq(raw.items, 1, 5)
       /\ out.last = SubSeq(raw.items, n - 4, n)
       /\ out.lines_preview = <<>>

\* the nested parent source_mapping of an element, when there is one
HasParentSM(e) ==
  /\ e.type_specific_fields.kind = "dict"
  /\ e.type_specific_fields.parent.kind = "dict"
  /\ e.type_specific_fields.parent.source_mapping.kind = "dict"
ParentLines(e) == e.type_specific_fields.parent.source_mapping.lines

\* the elements of the trimmed report stand where the input's elements stand
SameShape(inp, out) ==
  /\ Len(out) = Len(inp)
  /\ \A f \in DOMAIN inp :
       Len(out[f].elements.items) = Len(inp[f].elements.items)

----------------------------------------------------------------------------
(* C1: every raw `lines` list of length n, at the top-level source_mapping *)
(* and at the nested parent source_mapping, is replaced in the trimmed     *)
(* report by a summary with count = n; for n <= 10 the summary has         *)
(* lines_preview equal to the list and no first/last; for n > 10 it has    *)
(* first = the first 5, last = the last 5 and no other line data.          *)
C1_LineSummary ==
  trimmed.written =>
    /\ SameShape(InputFindings, ReportFindings)
    /\ \A f \in DOMAIN InputFindings :
         \A e \in DOMAIN InputFindings[f].elements.items :
           LET a == InputFindings[f].elements.items[e]
               b == ReportFindings[f].elements.items[e]
           IN /\ (a.source_mapping.kind = "dict"
                   /\ a.source_mapping.lines.kind = "list")
                 => IsSummaryOf(b.source_mapping.lines, a.source_mapping.lines)
              /\ (HasParentSM(a) /\ ParentLines(a).kind = "list")
                 => /\ HasParentSM(b)
                    /\ IsSummaryOf(ParentLines(b), ParentLines(a))

\* a report was written for an element with more than 10 top-level lines
\* and a shorter, non-empty nested list
C1_Witness ==
  /\ trimmed.written
  /\ \E f \in DOMAIN InputFindings :
       \E e \in DOMAIN InputFindings[f].elements.items :
         LET a == InputFindings[f].elements.items[e]
         IN /\ a.source_mapping.kind = "dict"
            /\ a.source_mapping.lines.kind = "list"
            /\ Len(a.source_mapping.lines.items) > 10
            /\ HasParentSM(a)
            /\ ParentLines(a).kind = "list"
            /\ Len(ParentLines(a).items) \in 1..10

(* C2: the trimmed report is shaped like the input: a mapping `results`    *)
(* keeps its other fields and has `detectors` replaced, a list `results`   *)
(* is replaced by the list of trimmed findings, and every other top-level  *)
(* field is copied unchanged.                                              *)
C2_SameShapeAsInput ==
  trimmed.written =>
    /\ trimmed.doc.success = data.success
    /\ data.results.kind = "dict" =>
         trimmed.doc.results =
           [data.results EXCEPT !.detectors.items = trimmed_detectors]
    /\ data.results.kind = "list" =>
         /\ trimmed.doc.results.kind = "list"
         /\ trimmed.doc.results.items = trimmed_detectors

(* C3: the findings are `results.detectors` when `results` is a mapping    *)
(* and `results` itself when it is any other value; the run ends with the  *)
(* 'no detectors found' outcome only when that value is absent or null,    *)
(* and in every other case the three outputs are written.                  *)
C3_LoaderOutcome ==
  LET resolved == IF data.results.kind = "dict"
                  THEN data.results.detectors.kind
                  ELSE data.results.kind
  IN /\ pc = "no_detectors" => resolved \in {"absent", "null"}
     /\ (pc \in {"no_detectors", "type_error", "done"}
          /\ resolved \notin {"absent", "null"})
        => /\ pc = "done"
           /\ trimmed.written /\ csv.written /\ md.written

RECURSIVE SumRowCounts(_)
SumRowCounts(rows) ==
  IF rows = <<>> THEN 0 ELSE Head(rows).count + SumRowCounts(Tail(rows))

(* C4: count conservation: the grand total of the Markdown summary equals  *)
(* the sum of the per-category counts of the CSV, and both equal the       *)
(* number of findings of the input.                                        *)
C4_CountConservation ==
  /\ pc \in {"csv", "md", "done"} => SumVals(counts) = Len(InputFindings)
  /\ pc = "done" =>
       /\ md.total = SumRowCounts(csv.rows)
       /\ md.total = Len(InputFindings)

\* a finished run over several categories, one of them met more than once
C4_Witness ==
  /\ pc = "done"
  /\ Len(csv.rows) >= 2
  /\ md.total > Len(csv.rows)

(* C5: order preservation: the trimmed report has as many findings as the  *)
(* input, and its i-th finding is the trimmed copy of the i-th input       *)
(* finding; during the pass the trimmed sequence is that of the findings   *)
(* met so far.                                                             *)
C5_OrderPreserved ==
  /\ \A k \in DOMAIN trimmed_detectors :
       /\ k <= Len(InputFindings)
       /\ trimmed_detectors[k] = TrimFinding(InputFindings[k]).copy
  /\ pc = "loop" /\ detectors.kind = "list" => Len(trimmed_detectors) = i - 1
  /\ trimmed.written =>
       /\ Len(ReportFindings) = Len(InputFindings)
       /\ \A k \in DOMAIN ReportFindings :
            ReportFindings[k] = TrimFinding(InputFindings[k]).copy

\* a report of at least three findings, the first two of them different
C5_Witness ==
  /\ trimmed.written
  /\ Len(InputFindings) >= 3
  /\ InputFindings[1] # InputFindings[2]
  /\ ReportFindings[1] # ReportFindings[2]

(* C6: representative cap: at every point of the pass and in the Markdown  *)
(* summary each category holds at most 3 representatives, and they are     *)
(* the first min(3, count) findings of the category in input order.        *)
C6_RepresentativeCap ==
  /\ \A j \in DOMAIN top_examples :
       LET refs == top_examples[j].val
           S == Members(top_examples[j].key, i - 1)
       IN /\ Len(refs) <= 3
          /\ Len(refs) = Min(3, Cardinality(S))
          /\ \A a \in DOMAIN refs :
               /\ refs[a] \in S
               /\ Cardinality({k \in S : k < refs[a]}) = a - 1
  /\ md.written =>
       \A j \in DOMAIN md.reps :
         LET c == md.reps[j].check
             S == Members(c, Len(InputFindings))
             ex == md.reps[j].examples
         IN /\ Len(ex) = Min(3, Cardinality(S))
            /\ md.reps[j].count = Cardinality(S)
            /\ \A a \in DOMAIN ex :
                 \E k \in S :
                   /\ Cardinality({m \in S : m < k}) = a - 1
                   /\ ex[a] = MdExample(InputFindings[k])

\* the pass is past the fourth finding of a category that keeps three
C6_Witness ==
  \E j \in DOMAIN top_examples :
    /\ Lookup(counts, top_examples[j].key) >= 4
    /\ Len(top_examples[j].val) = 3
    /\ md.written

(* C7: idempotence: a `lines` value that is already a summary comes out    *)
(* of trimming unchanged, so trimming a trimmed finding gives the same     *)
(* finding; only a raw list is changed.                                    *)
C7_TrimIdempotent ==
  /\ \A k \in DOMAIN trimmed_detectors :
       /\ TrimFinding(trimmed_detectors[k]).copy = trimmed_detectors[k]
       /\ \A e \in DOMAIN InputFindings[k].elements.items :
            LET a == InputFindings[k].elements.items[e]
                b == trimmed_detectors[k].elements.items[e]
            IN /\ a.source_mapping.lines.kind # "list"
                  => b.source_mapping = a.source_mapping
               /\ ParentLines(a).kind # "list"
                  => b.type_specific_fields = a.type_specific_fields

\* a finding was trimmed whose element carried a summary and a raw list
C7_Witness ==
  \E k \in DOMAIN trimmed_detectors :
    \E e \in DOMAIN InputFindings[k].elements.items :
      LET a == InputFindings[k].elements.items[e]
      IN /\ a.source_mapping.kind = "dict"
         /\ a.source_mapping.lines.kind = "dict"
         /\ "first" \in a.source_mapping.lines.keys
         /\ HasParentSM(a)
         /\ ParentLines(a).kind = "list"

(* C8: the CSV has one row per category, by descending count, equal        *)
(* counts in first-seen order; the Markdown 'top detectors' section lists  *)
(* the first min(30, number of categories) of the same ordering with the   *)
(* same counts.                                                            *)
C8_CsvAndTopOrder ==
  /\ csv.written =>
       LET rows == csv.rows
           n == Len(InputFindings)
           cats == {CategoryOf(InputFindings[k]) : k \in 1..n}
       IN /\ Len(rows) = Cardinality(cats)
          /\ {rows[j].check : j \in DOMAIN rows} = cats
          /\ \A j \in DOMAIN rows :
               rows[j].count = Cardinality(Members(rows[j].check, n))
          /\ \A j \in 1..(Len(rows) - 1) :
               \/ rows[j].count > rows[j + 1].count
               \/ /\ rows[j].count = rows[j + 1].count
                  /\ FirstSeen(rows[j].check) < FirstSeen(rows[j + 1].check)
  /\ md.written =>
       /\ Len(md.top) = Min(30, Len(csv.rows))
       /\ \A j \in DOMAIN md.top :
            /\ md.top[j].check = csv.rows[j].check
            /\ md.top[j].count = csv.rows[j].count

\* more than 30 categories, a tie among the repeated ones, and a first row
\* that is not the first category seen
C8_Witness ==
  /\ md.written
  /\ Len(csv.rows) > 30
  /\ Len(md.top) = 30
  /\ csv.rows[1].count = csv.rows[2].count
  /\ csv.rows[2].count > csv.rows[3].count
  /\ FirstSeen(csv.rows[1].check) > 1

\* the key a field value is counted under in the impact/confidence tables
TableKey(v) == IF v \in {Absent, Null, ""} THEN "" ELSE v

\* tbl[c][keys[k]] is the number of findings of category c with the key of
\* finding k, where keys[m] is the key of the m-th input finding
Tally(tbl, c, keys, k) ==
  /\ HasKey(tbl, c)
  /\ HasKey(Lookup(tbl, c), keys[k])
  /\ Lookup(Lookup(tbl, c), keys[k]) =
       Cardinality({m \in Members(c, Len(InputFindings)) : keys[m] = keys[k]})

(* C9: findings lacking check, impact, confidence, description/markdown or *)
(* elements, and elements lacking source_mapping, lines or                 *)
(* type_specific_fields, never abort the run: each finding is counted      *)
(* (under "unknown" without a check, under "" in the impact and            *)
(* confidence tables), appears in the trimmed sequence with an empty       *)
(* elements list when it has none, and all three outputs are written.      *)
C9_MalformedTolerated ==
  (pc # "load" /\ detectors.kind = "list") =>
    /\ pc \in {"loop", "csv", "md", "done"}
    /\ pc = "loop" => i <= Len(InputFindings) + 1
    /\ pc = "done" =>
         /\ trimmed.written /\ csv.written /\ md.written
         /\ Len(ReportFindings) = Len(InputFindings)
         /\ \A k \in DOMAIN InputFindings :
              LET f == InputFindings[k]
                  c == IF f.check \in {Absent, Null, ""}
                       THEN "unknown" ELSE f.check
              IN /\ HasKey(counts, c)
                 /\ Lookup(counts, c) =
                      Cardinality(Members(c, Len(InputFindings)))
                 /\ \E r \in DOMAIN csv.rows :
                      /\ csv.rows[r].check = c
                      /\ csv.rows[r].count = Lookup(counts, c)
                 /\ Tally(impact_counts, c,
                          [m \in DOMAIN InputFindings |->
                             TableKey(InputFindings[m].impact)], k)
                 /\ f.impact = Absent
                    => HasKey(Lookup(impact_counts, c), "")
                 /\ Tally(confidence_counts, c,
                          [m \in DOMAIN InputFindings |->
                             TableKey(InputFindings[m].confidence)], k)
                 /\ f.confidence = Absent
                    => HasKey(Lookup(confidence_counts, c), "")
                 /\ ReportFindings[k].elements.kind = "list"
                 /\ f.elements.kind \in {"absent", "null"}
                    => ReportFindings[k].elements.items = <<>>

\* a finished run over a finding that lacks all five fields
C9_Witness ==
  /\ pc = "done"
  /\ trimmed.written /\ csv.written /\ md.written
  /\ \E k \in DOMAIN InputFindings :
       LET f == InputFindings[k]
       IN /\ f.check = Absent /\ f.impact = Absent /\ f.confidence = Absent
          /\ f.description = Absent /\ f.markdown = Absent
          /\ f.elements.kind = "absent"

\* a finding with its `lines` values and its `elements` key blanked
Blanked(f) ==
  [f EXCEPT !.elements =
     ListElements(
       [e \in DOMAIN f.elements.items |->
          [f.elements.items[e] EXCEPT
             !.source_mapping.lines = NoLines,
             !.type_specific_fields.parent.source_mapping.lines = NoLines]])]

(* C10: trimming leaves the input untouched: every input finding, and so   *)
(* every representative, keeps its raw `lines` lists at both places, and   *)
(* a trimmed finding differs from its original only in the replaced        *)
(* `lines` values (and in `elements`, an empty list when it had none).     *)
C10_InputUntouched ==
  /\ detectors.kind = "list" => detectors.items = InputFindings
  /\ \A j \in DOMAIN top_examples :
       \A a \in DOMAIN top_examples[j].val :
         detectors.items[top_examples[j].val[a]]
           = InputFindings[top_examples[j].val[a]]
  /\ \A k \in DOMAIN trimmed_detectors :
       /\ Blanked(trimmed_detectors[k]) = Blanked(InputFindings[k])
       /\ \A e \in DOMAIN InputFindings[k].elements.items :
            LET a == InputFindings[k].elements.items[e]
                b == trimmed_detectors[k].elements.items[e]
            IN /\ a.source_mapping.kind # "dict"
                  => b.source_mapping = a.source_mapping
               /\ ~HasParentSM(a)
                  => b.type_specific_fields = a.type_specific_fields

\* a representative whose raw lists were summarised in its trimmed copy
C10_Witness ==
  /\ pc = "done"
  /\ \E j \in DOMAIN top_examples :
       \E a \in DOMAIN top_examples[j].val :
         LET k == top_examples[j].val[a]
         IN \E e \in DOMAIN detectors.items[k].elements.items :
              LET x == detectors.items[k].elements.items[e]
              IN /\ x.source_mapping.lines.kind = "list"
                 /\ Len(x.source_mapping.lines.items) > 10
                 /\ ParentLines(x).kind = "list"
                 /\ trimmed_detectors[k].elements.items[e] # x

====
